---- MODULE Spec2Model ----
(***************************************************************************)
(* A model of the two app-token command-line tools:                        *)
(*   Tool A  kaltura_app_token_manager.py                                  *)
(*   Tool B  kapptokens.py                                                 *)
(* One behaviour is one run of one tool: the parsed command line, the      *)
(* state of config.json, the sequence of remote calls issued through the   *)
(* API client together with what the server answered, the client's ambient *)
(* session (client.setKs) and the way the run ended.  The remote platform  *)
(* is a black box: every answer it can give (a value, an empty value, a    *)
(* KalturaException) is a nondeterministic choice.                         *)
(*                                                                         *)
(* Strings.  Tool A only concatenates strings, so its strings are TLA+     *)
(* strings (\o is concatenation).  Tool B splits, lowers and replaces      *)
(* inside strings, so the strings it does that to (--actions, URIs,        *)
(* sessionPrivileges) are sequences of one-character strings.              *)
(***************************************************************************)
EXTENDS Integers, Sequences, FiniteSets, TLC

VARIABLES
    tool,             \* "A" or "B": which script this run executes
    args,             \* the argparse Namespace; an option left at its None default is not in DOMAIN args
    config,           \* config.json on disk: "ok", "missing" or "invalid" (not JSON)
    config_opened,    \* TRUE once the run has tried to open config.json
    pc,               \* the statement the run is at
    outcome,          \* how the run ended ("running" until then)
    calls,            \* the remote calls issued so far, each with the server's answer
    ks,               \* the client's ambient session (client.setKs)
    app_token,        \* the token object being prepared for appToken.update
    app_token_id,     \* the id handed to start_app_token_session
    app_token_value,  \* the token value handed to start_app_token_session
    unprivileged_ks,  \* start_app_token_session's local
    privileged_ks     \* what start_app_token_session returned

vars == <<tool, args, config, config_opened, pc, outcome, calls, ks, app_token,
          app_token_id, app_token_value, unprivileged_ks, privileged_ks>>

(***************************************************************************)
(* Bounds of the explored inputs.                                          *)
(***************************************************************************)
\* Tool A: how many privilege options a command line supplies at most
MaxSupplied == 2
\* Tool B: how many comma-separated items --actions holds at most
MaxActions == 2
\* Tool B: how many URIs the fetched token's sessionPrivileges holds at most
MaxExisting == 2

(***************************************************************************)
(* Python values.                                                          *)
(***************************************************************************)
\* Python's None, where a TLA+ string is expected
None == "<None>"

\* bool(x) of a str-or-None value
Truthy(x) == x # None /\ x # ""

\* getattr(args, name) of a str option whose default is None
Arg(a, name) == IF name \in DOMAIN a THEN a[name] ELSE None

\* bool(args.<name>) of a str option
Given(a, name) == name \in DOMAIN a /\ a[name] # ""

\* str.join on TLA+ strings
RECURSIVE join(_, _)
join(sep, parts) ==
    IF parts = <<>> THEN ""
    ELSE IF Len(parts) = 1 THEN parts[1]
    ELSE parts[1] \o sep \o join(sep, Tail(parts))

(***************************************************************************)
(* Strings as sequences of characters (Tool B).                            *)
(***************************************************************************)
\* str.lower on the characters the inputs use
LowerChar(c) == CASE c = "M" -> "m" [] c = "B" -> "b" [] c = "L" -> "l" [] OTHER -> c

lower(s) == [i \in 1..Len(s) |-> LowerChar(s[i])]

\* `c in s`
contains(s, c) == \E i \in 1..Len(s) : s[i] = c

\* s.replace(c, new) for a one-character c, from the i-th character of s on
RECURSIVE replace_from(_, _, _, _)
replace_from(s, i, c, new) ==
    IF i > Len(s) THEN <<>>
    ELSE (IF s[i] = c THEN new ELSE <<s[i]>>) \o replace_from(s, i + 1, c, new)

\* s.replace(c, new) for a one-character c
replace(s, c, new) == replace_from(s, 1, c, new)

\* s.split(c) for a one-character c: "".split(c) = [""], and k separators give k+1 parts
split(s, c) ==
    LET found == {k \in 1..Len(s) : s[k] = c}
        \* where the n-th separator is; 0 and Len(s) + 1 stand for the two ends
        at(n) == IF n = 0 THEN 0
                 ELSE IF n > Cardinality(found) THEN Len(s) + 1
                 ELSE CHOOSE k \in found : Cardinality({j \in found : j < k}) = n - 1
    IN  [n \in 1..(Cardinality(found) + 1) |-> SubSeq(s, at(n - 1) + 1, at(n) - 1)]

\* sep.join(parts) on character sequences
RECURSIVE joinChars(_, _)
joinChars(sep, parts) ==
    IF parts = <<>> THEN <<>>
    ELSE IF Len(parts) = 1 THEN parts[1]
    ELSE parts[1] \o sep \o joinChars(sep, Tail(parts))

\* a Python str and a Python list of str, told apart (Tool B's sessionPrivileges is either)
PyStr(s) == [type |-> "str", v |-> s]
PyList(l) == [type |-> "list", v |-> l]

\* the elements of a sequence
Range(s) == {s[i] : i \in 1..Len(s)}

\* the sequences over S of length at most n
SeqsUpTo(S, n) == UNION {[1..k -> S] : k \in 0..n}

\* every order list(set(...)) can produce: the orderings of a set without repetition
Orderings(S) == {p \in [1..Cardinality(S) -> S] : Range(p) = S}

(***************************************************************************)
(* Tool A: the command line (setup_parser) and the privilege encoder.      *)
(***************************************************************************)
\* the keys of the PRIVILEGE_HANDLERS dict, in insertion order
PRIVILEGE_HANDLERS ==
    <<"edit", "sview", "list", "download", "downloadasset", "editplaylist",
      "sviewplaylist", "edituser", "actionslimit", "setrole", "iprestrict",
      "urirestrict", "enableentitlement", "disableentitlement",
      "disableentitlementforentry", "privacycontext", "enablecategorymoderation",
      "reftime", "preview", "sessionid">>

\* setup_parser: the privilege options declared type=int
IntOptions == {"actionslimit", "reftime", "preview"}

\* setup_parser: the privilege options declared action='store_true' (default False, never None)
FlagOptions == {"list", "enableentitlement", "disableentitlement", "enablecategorymoderation"}

\* setup_parser: the privilege options declared type=str (default None)
StrOptions == Range(PRIVILEGE_HANDLERS) \ (IntOptions \cup FlagOptions)

\* the values explored for the options
StrValues == {"123"}
IntValues == {7}
Descriptions == {"demo"}
TokenIdArgs == {"", "t1"}

\* f"{value}" of the value argparse stored for `option`
Format(option, value) ==
    IF option \in IntOptions THEN ToString(value)
    ELSE IF option \in FlagOptions THEN (IF value THEN "True" ELSE "False")
    ELSE value

handle_privilege(privilege_name, value) ==
    IF privilege_name = "list" THEN "list:*"
    ELSE privilege_name \o ":" \o Format(privilege_name, value)

\* the loop of build_privileges from handler i on: the tokens of the options whose value is not None
RECURSIVE privileges_from(_, _)
privileges_from(a, i) ==
    IF i > Len(PRIVILEGE_HANDLERS) THEN <<>>
    ELSE LET privilege == PRIVILEGE_HANDLERS[i]
         IN  (IF privilege \in DOMAIN a
              THEN <<handle_privilege(privilege, a[privilege])>>
              ELSE <<>>) \o privileges_from(a, i + 1)

build_privileges(a) == join(",", privileges_from(a, 1))

(***************************************************************************)
(* Tool B: the URI-restriction builder.                                    *)
(***************************************************************************)
\* "/api_v3/service/"
API_SERVICE == <<"/", "a", "p", "i", "_", "v", "3", "/", "s", "e", "r", "v", "i", "c", "e", "/">>

\* "/action/"
ActionSegment == <<"/", "a", "c", "t", "i", "o", "n", "/">>

\* "urirestrict:"
URIRESTRICT == <<"u", "r", "i", "r", "e", "s", "t", "r", "i", "c", "t", ":">>

\* the body of build_uri_privilege's loop; replace('*', '*') changes nothing
build_uri(action) ==
    IF contains(action, "*")
    THEN API_SERVICE \o replace(replace(action, ".", ActionSegment), "*", <<"*">>)
    ELSE API_SERVICE \o replace(action, ".", ActionSegment) \o <<"/">>

build_uri_privilege(list_actions) == [i \in 1..Len(list_actions) |-> build_uri(list_actions[i])]

\* args.actions.lower().split(',')
list_actions_of(a) == split(lower(a["actions"]), ",")

\* the append branch of main: set(existing_uris) after the extend
unique_uris_set(existing_privileges, list_actions) ==
    Range(split(existing_privileges, "|") \o build_uri_privilege(list_actions))

\* the append branch of main: "urirestrict:" + "|".join(unique_uris)
append_privileges(unique_uris) == PyStr(URIRESTRICT \o joinChars(<<"|">>, unique_uris))

(***************************************************************************)
(* The command lines explored.                                             *)
(***************************************************************************)
\* the items --actions is built from: "m.*" and "B.l"
ActionItems == {<<"m", ".", "*">>, <<"B", ".", "l">>}

\* the --actions values: up to MaxActions items joined by commas ("" when there is none)
ActionStrings == {joinChars(<<",">>, l) : l \in SeqsUpTo(ActionItems, MaxActions)}

OptionValues(o) ==
    IF o \in IntOptions THEN IntValues
    ELSE IF o \in {"start_session", "append"} THEN {TRUE}
    ELSE IF o \in FlagOptions THEN {TRUE}
    ELSE IF o = "description" THEN Descriptions
    ELSE IF o \in {"update", "delete"} THEN TokenIdArgs
    ELSE IF o = "actions" THEN ActionStrings
    ELSE StrValues

\* the Namespaces that give each option of S one of its values
RECURSIVE Namespaces(_)
Namespaces(S) ==
    IF S = {} THEN {<<>>}
    ELSE LET o == CHOOSE x \in S : TRUE
         IN  {(o :> v) @@ n : v \in OptionValues(o), n \in Namespaces(S \ {o})}

\* parse_args with nothing on the command line: the store_true options are False, the rest None
DefaultsA == [o \in FlagOptions \cup {"start_session"} |-> FALSE]

\* the privilege options the explored command lines use: some of each type, from the
\* first to the last key of PRIVILEGE_HANDLERS
SuppliedOptions ==
    {"edit", "sview", "list", "actionslimit", "urirestrict", "enableentitlement",
     "preview", "sessionid"}

\* Tool A's command lines: at most MaxSupplied privilege options, and any of
\* --description, --update, --delete, --start_session
ArgsA ==
    UNION {
        {n @@ DefaultsA : n \in Namespaces(P \cup C)} :
            P \in {Q \in SUBSET SuppliedOptions : Cardinality(Q) <= MaxSupplied},
            C \in SUBSET {"description", "update", "delete", "start_session"}}

\* len(sys.argv) == 1: no option was given, so every option has its default
NoArguments(a) == a = DefaultsA

\* Tool B's store_true options (--debug only switches logging on and is left out)
DefaultsB == [o \in {"list", "append"} |-> FALSE]

\* Tool B's command lines: any of --list, --actions, --update, --append, --description
ArgsB ==
    UNION {{n @@ DefaultsB : n \in Namespaces(C)} :
            C \in SUBSET {"list", "actions", "update", "append", "description"}}

(***************************************************************************)
(* The remote platform: what it can answer.                                *)
(***************************************************************************)
\* config['PARTNER_ID'], as it prints
PARTNER_ID == "12345"

AdminSessions == {"admin_ks"}
WidgetSessions == {"u1", "u2"}
PrivilegedSessions == {"p1"}
\* a response that carries no session string
NoSession == {None, ""}
\* the id the server assigns to a new token
NewTokenIds == {"t2"}
\* the secret value of the token the server returns (None: the field is absent)
TokenValues == {None, "v1", "v2"}
\* the codes of the KalturaException a call can fail with
ErrorCodes(op) ==
    IF op = "appToken.get" THEN {"APP_TOKEN_ID_NOT_FOUND", "SERVICE_FORBIDDEN"}
    ELSE {"SERVICE_FORBIDDEN"}

\* KalturaAppToken(): nothing set
KalturaAppToken ==
    [id |-> None, token |-> None, description |-> None, sessionPrivileges |-> None,
     sessionType |-> None, hashType |-> None]

\* the tokens appToken.get can return to Tool A
ExistingTokensA(id) ==
    {[id |-> id, token |-> "v0", description |-> "old", sessionPrivileges |-> "sview:*",
      sessionType |-> "USER", hashType |-> "SHA256"]}

\* the URIs a stored urirestrict list is made of: "/api_v3/service/m/action/*" and "/a"
ExistingUris == {build_uri(<<"m", ".", "*">>), <<"/", "a">>}

\* the sessionPrivileges appToken.get can return to Tool B: "urirestrict:" + '|'-joined URIs
ExistingPrivileges ==
    {URIRESTRICT \o joinChars(<<"|">>, l) : l \in SeqsUpTo(ExistingUris, MaxExisting) \ {<<>>}}

\* the tokens appToken.get can return to Tool B
ExistingTokensB(id) ==
    {[id |-> id, token |-> "v0", description |-> "old", sessionPrivileges |-> PyStr(p),
      sessionType |-> "USER", hashType |-> "SHA256"] : p \in ExistingPrivileges}

\* the server stores the submitted object and returns it with its id and secret value
Stored(token, id, value) == [token EXCEPT !.id = id, !.token = value]

\* one remote call and its answer: ok is FALSE when the call raised a KalturaException,
\* and result is then the exception's code; ks is the ambient session the client sent with it
Call(op, arguments, ok, result) ==
    [op |-> op, args |-> arguments, ok |-> ok, result |-> result, ks |-> ks]

\* hashlib.sha256(s).hexdigest(), kept symbolic: distinct inputs give distinct digests
sha256_hexdigest(s) == "sha256(" \o s \o ")"

\* the ways a run ends
Unhandled == {"ConfigurationError", "HandshakeError", "RemoteAPIError", "TypeError"}
Outcomes == {"running", "returned", "help", "user_error"} \cup Unhandled

Init ==
    /\ tool \in {"A", "B"}
    /\ args \in (IF tool = "A" THEN ArgsA ELSE ArgsB)
    /\ config \in {"ok", "missing", "invalid"}
    /\ config_opened = FALSE
    /\ pc = "main"
    /\ outcome = "running"
    /\ calls = <<>>
    /\ ks = None
    /\ app_token = KalturaAppToken
    /\ app_token_id = None
    /\ app_token_value = None
    /\ unprivileged_ks = None
    /\ privileged_ks = None

\* the run ends
Finish(how) == pc' = "done" /\ outcome' = how

\* the run goes on at statement `next`, or ends normally when there is none
Goto(next) == pc' = next /\ outcome' = (IF next = "done" THEN "returned" ELSE outcome)

\* the client issues a call and the server answers
Issue(op, arguments, ok, result) == calls' = Append(calls, Call(op, arguments, ok, result))

\* (mutant) the session is not handed to the client
setKs_dropped(session) == UNCHANGED ks

\* client.setKs(session): the session becomes the ambient one
setKs(session) == ks' = session

(***************************************************************************)
(* Tool A: kaltura_app_token_manager.py                                    *)
(***************************************************************************)
\* main: with no argument at all, print the help and sys.exit(1)
A_main ==
    /\ tool = "A" /\ pc = "main"
    /\ IF NoArguments(args) THEN Finish("help") ELSE Goto("load_configuration")
    /\ UNCHANGED <<tool, args, config, config_opened, calls, ks, app_token, app_token_id,
                   app_token_value, unprivileged_ks, privileged_ks>>

\* (mutant) a missing file is read as an empty configuration
load_configuration_missing_ok(file) == IF file = "invalid" THEN "Exception" ELSE "config_data"

\* load_configuration: the config data, or the Exception raised for a missing or invalid file
load_configuration(file) == IF file = "ok" THEN "config_data" ELSE "Exception"

\* run_application, first two lines: load_configuration and initialize_client (no remote call)
A_load_configuration ==
    /\ tool = "A" /\ pc = "load_configuration"
    /\ config_opened' = TRUE
    /\ IF load_configuration(config) = "Exception"
       THEN Finish("ConfigurationError")
       ELSE Goto("start_admin_session")
    /\ UNCHANGED <<tool, args, config, calls, ks, app_token, app_token_id,
                   app_token_value, unprivileged_ks, privileged_ks>>

\* (mutant) the list flag is looked at before the delete id
run_application_branch_list_first(a) ==
    IF a["list"] THEN "list_app_tokens"
    ELSE IF Given(a, "delete") THEN "delete_app_token"
    ELSE "process_app_token_arguments"

\* run_application: the branch taken once the admin session is set
run_application_branch(a) ==
    IF Given(a, "delete") THEN "delete_app_token"
    ELSE IF a["list"] THEN "list_app_tokens"
    ELSE "process_app_token_arguments"

\* process_app_token_arguments: update when an update id is given, create otherwise
process_branch(a) == IF Given(a, "update") THEN "update_app_token" ELSE "create_app_token"

\* start_admin_session (its except clause re-raises the KalturaException as an Exception)
\* and client.setKs(ks), then run_application's dispatch
A_start_admin_session ==
    /\ tool = "A" /\ pc = "start_admin_session"
    /\ \/ \E s \in AdminSessions :
            /\ Issue("session.start", <<"ADMIN", PARTNER_ID>>, TRUE, s)
            /\ setKs(s)
            /\ LET branch == run_application_branch(args)
               IN  Goto(IF branch = "process_app_token_arguments"
                        THEN process_branch(args) ELSE branch)
       \/ \E e \in ErrorCodes("session.start") :
            /\ Issue("session.start", <<"ADMIN", PARTNER_ID>>, FALSE, e)
            /\ Finish("RemoteAPIError")
            /\ UNCHANGED ks
    /\ UNCHANGED <<tool, args, config, config_opened, app_token, app_token_id,
                   app_token_value, unprivileged_ks, privileged_ks>>

\* delete_app_token; its except clause prints the error
A_delete_app_token ==
    /\ tool = "A" /\ pc = "delete_app_token"
    /\ \/ /\ Issue("appToken.delete", <<args["delete"]>>, TRUE, "void")
          /\ Finish("returned")
       \/ \E e \in ErrorCodes("appToken.delete") :
            /\ Issue("appToken.delete", <<args["delete"]>>, FALSE, e)
            /\ Finish("returned")
    /\ UNCHANGED <<tool, args, config, config_opened, ks, app_token, app_token_id,
                   app_token_value, unprivileged_ks, privileged_ks>>

\* list_app_tokens: one page, printed as a table ("No App Tokens found." when it is
\* empty); its except clause prints the error
A_list_app_tokens ==
    /\ tool = "A" /\ pc = "list_app_tokens"
    /\ \/ \E page \in {"empty", "objects"} :
            /\ Issue("appToken.list", <<>>, TRUE, page)
            /\ Finish("returned")
       \/ \E e \in ErrorCodes("appToken.list") :
            /\ Issue("appToken.list", <<>>, FALSE, e)
            /\ Finish("returned")
    /\ UNCHANGED <<tool, args, config, config_opened, ks, app_token, app_token_id,
                   app_token_value, unprivileged_ks, privileged_ks>>

\* (mutant) a token that came back without a value is created again
after_token_call_retry(a, new_token_id, new_token_value) ==
    IF a["start_session"] /\ Truthy(new_token_id) /\ ~Truthy(new_token_value)
    THEN "create_app_token"
    ELSE IF a["start_session"] /\ Truthy(new_token_id) /\ Truthy(new_token_value)
    THEN "startWidgetSession"
    ELSE "done"

\* (mutant) the handshake is started without looking at the id and the value
after_token_call_unguarded(a, new_token_id, new_token_value) ==
    IF a["start_session"] THEN "startWidgetSession" ELSE "done"

\* process_app_token_arguments, after the update or the create: the handshake is
\* started only when --start_session is set and both the id and the value are truthy
after_token_call(a, new_token_id, new_token_value) ==
    IF a["start_session"] /\ Truthy(new_token_id) /\ Truthy(new_token_value)
    THEN "startWidgetSession"
    ELSE "done"

\* update_app_token: the fetched token with the given privileges and description laid over it
overlay(fetched, privileges, description) ==
    [fetched EXCEPT
        !.sessionPrivileges = IF privileges # "" THEN privileges ELSE @,
        !.description = IF Truthy(description) THEN description ELSE @]

\* update_app_token, up to the appToken.update call; on a KalturaException the except
\* clause prints the error and returns None
A_update_app_token_get ==
    /\ tool = "A" /\ pc = "update_app_token"
    /\ \/ \E fetched \in ExistingTokensA(args["update"]) :
            /\ Issue("appToken.get", <<args["update"]>>, TRUE, fetched)
            /\ app_token' = overlay(fetched, build_privileges(args), Arg(args, "description"))
            /\ Goto("appToken.update")
       \/ \E e \in ErrorCodes("appToken.get") :
            /\ Issue("appToken.get", <<args["update"]>>, FALSE, e)
            /\ Goto(after_token_call(args, app_token_id, app_token_value))
            /\ UNCHANGED app_token
    /\ UNCHANGED <<tool, args, config, config_opened, ks, app_token_id,
                   app_token_value, unprivileged_ks, privileged_ks>>

\* update_app_token from the appToken.update call on; its caller drops the returned
\* token, so new_token_id and new_token_value keep their None
A_update_app_token ==
    /\ tool = "A" /\ pc = "appToken.update"
    /\ \/ \E value \in TokenValues :
            /\ Issue("appToken.update", <<args["update"], app_token>>, TRUE,
                     Stored(app_token, args["update"], value))
            /\ Goto(after_token_call(args, app_token_id, app_token_value))
       \/ \E e \in ErrorCodes("appToken.update") :
            /\ Issue("appToken.update", <<args["update"], app_token>>, FALSE, e)
            /\ Goto(after_token_call(args, app_token_id, app_token_value))
    /\ UNCHANGED <<tool, args, config, config_opened, ks, app_token, app_token_id,
                   app_token_value, unprivileged_ks, privileged_ks>>

\* create_app_token: the object submitted to appToken.add
new_app_token(privileges, description) ==
    [KalturaAppToken EXCEPT
        !.description = description, !.sessionPrivileges = privileges,
        !.sessionType = "USER", !.hashType = "SHA256"]

\* create_app_token (None on a KalturaException), and its caller taking the id and the
\* value of the returned token
A_create_app_token ==
    /\ tool = "A" /\ pc = "create_app_token"
    /\ LET submitted == new_app_token(build_privileges(args), Arg(args, "description"))
       IN  \/ \E id \in NewTokenIds, value \in TokenValues :
                /\ Issue("appToken.add", <<submitted>>, TRUE, Stored(submitted, id, value))
                /\ app_token_id' = id
                /\ app_token_value' = value
                /\ Goto(after_token_call(args, id, value))
           \/ \E e \in ErrorCodes("appToken.add") :
                /\ Issue("appToken.add", <<submitted>>, FALSE, e)
                /\ Goto(after_token_call(args, app_token_id, app_token_value))
                /\ UNCHANGED <<app_token_id, app_token_value>>
    /\ UNCHANGED <<tool, args, config, config_opened, ks, app_token,
                   unprivileged_ks, privileged_ks>>

\* widget_id = "_{0}".format(partner_id)
widget_id(partner_id) == "_" \o partner_id

\* (mutant) the token value is hashed before the session
token_hash_swapped(unprivileged, value) == sha256_hexdigest(value \o unprivileged)

\* start_app_token_session: sha256 over the unprivileged session followed by the token value
token_hash(unprivileged, value) == sha256_hexdigest(unprivileged \o value)

\* start_app_token_session, up to the hash: the widget session, its check, client.setKs
A_startWidgetSession ==
    /\ tool = "A" /\ pc = "startWidgetSession"
    /\ \/ \E u \in WidgetSessions \cup NoSession :
            /\ Issue("session.startWidgetSession", <<widget_id(PARTNER_ID)>>, TRUE, u)
            /\ IF ~Truthy(u)
               THEN Finish("HandshakeError") /\ UNCHANGED <<ks, unprivileged_ks>>
               ELSE Goto("appToken.startSession") /\ setKs(u) /\ unprivileged_ks' = u
       \/ \E e \in ErrorCodes("session.startWidgetSession") :
            /\ Issue("session.startWidgetSession", <<widget_id(PARTNER_ID)>>, FALSE, e)
            /\ Finish("RemoteAPIError")
            /\ UNCHANGED <<ks, unprivileged_ks>>
    /\ UNCHANGED <<tool, args, config, config_opened, app_token, app_token_id,
                   app_token_value, privileged_ks>>

\* start_app_token_session from the appToken.startSession call on
A_startSession ==
    /\ tool = "A" /\ pc = "appToken.startSession"
    /\ LET arguments == <<app_token_id, token_hash(unprivileged_ks, app_token_value),
                          "", "USER", PARTNER_ID>>
       IN  \/ \E p \in PrivilegedSessions \cup NoSession :
                /\ Issue("appToken.startSession", arguments, TRUE, p)
                /\ IF ~Truthy(p)
                   THEN Finish("HandshakeError") /\ UNCHANGED <<ks, privileged_ks>>
                   ELSE Finish("returned") /\ setKs(p) /\ privileged_ks' = p
           \/ \E e \in ErrorCodes("appToken.startSession") :
                /\ Issue("appToken.startSession", arguments, FALSE, e)
                /\ Finish("RemoteAPIError")
                /\ UNCHANGED <<ks, privileged_ks>>
    /\ UNCHANGED <<tool, args, config, config_opened, app_token, app_token_id,
                   app_token_value, unprivileged_ks>>

NextA ==
    \/ A_main
    \/ A_load_configuration
    \/ A_start_admin_session
    \/ A_delete_app_token
    \/ A_list_app_tokens
    \/ A_update_app_token_get
    \/ A_update_app_token
    \/ A_create_app_token
    \/ A_startWidgetSession
    \/ A_startSession

(***************************************************************************)
(* Tool B: kapptokens.py                                                   *)
(***************************************************************************)
\* (mutant) --update is not looked at
actions_missing_without_update(a) ==
    ~a["list"] /\ ~("actions" \in DOMAIN a /\ a["actions"] # <<>>)

\* main's first check: (args.update or not args.list) and not args.actions
actions_missing(a) ==
    (Given(a, "update") \/ ~a["list"]) /\ ~("actions" \in DOMAIN a /\ a["actions"] # <<>>)

\* main, up to the --actions check: print the message and return, or go on
B_main ==
    /\ tool = "B" /\ pc = "main"
    /\ IF actions_missing(args) THEN Finish("user_error") ELSE Goto("load_configuration")
    /\ UNCHANGED <<tool, args, config, config_opened, calls, ks, app_token, app_token_id,
                   app_token_value, unprivileged_ks, privileged_ks>>

\* open('config.json') and json.load: FileNotFoundError or JSONDecodeError, not caught
open_config(file) == IF file = "ok" THEN "config_data" ELSE "Error"

\* main: the configuration is read and the client is built (no remote call)
B_load_configuration ==
    /\ tool = "B" /\ pc = "load_configuration"
    /\ config_opened' = TRUE
    /\ IF open_config(config) = "Error"
       THEN Finish("ConfigurationError")
       ELSE Goto("session.start")
    /\ UNCHANGED <<tool, args, config, calls, ks, app_token, app_token_id,
                   app_token_value, unprivileged_ks, privileged_ks>>

\* main: what follows client.setKs(ks)
main_branch(a) ==
    IF a["list"] THEN "list_app_tokens"
    ELSE IF Given(a, "update") THEN "appToken.get"
    ELSE "appToken.add"

\* main: client.session.start, outside any try, and client.setKs(ks)
B_session_start ==
    /\ tool = "B" /\ pc = "session.start"
    /\ \/ \E s \in AdminSessions :
            /\ Issue("session.start", <<"ADMIN", PARTNER_ID>>, TRUE, s)
            /\ setKs(s)
            /\ Goto(main_branch(args))
       \/ \E e \in ErrorCodes("session.start") :
            /\ Issue("session.start", <<"ADMIN", PARTNER_ID>>, FALSE, e)
            /\ Finish("RemoteAPIError")
            /\ UNCHANGED ks
    /\ UNCHANGED <<tool, args, config, config_opened, app_token, app_token_id,
                   app_token_value, unprivileged_ks, privileged_ks>>

\* list_app_tokens, outside any try, and main's return after it
B_list_app_tokens ==
    /\ tool = "B" /\ pc = "list_app_tokens"
    /\ \/ \E page \in {"empty", "objects"} :
            /\ Issue("appToken.list", <<>>, TRUE, page)
            /\ Finish("returned")
       \/ \E e \in ErrorCodes("appToken.list") :
            /\ Issue("appToken.list", <<>>, FALSE, e)
            /\ Finish("RemoteAPIError")
    /\ UNCHANGED <<tool, args, config, config_opened, ks, app_token, app_token_id,
                   app_token_value, unprivileged_ks, privileged_ks>>

\* main: the except clause around appToken.get returns on this code and re-raises the rest
get_failed(code) == IF code = "APP_TOKEN_ID_NOT_FOUND" THEN "returned" ELSE "RemoteAPIError"

\* main: the sessionPrivileges given to a token without --append (also on the create path)
uri_privileges(list_actions) == PyList(build_uri_privilege(list_actions))

\* main: `if args.description:` sets the description, otherwise it stays as it was
with_description(token, a) ==
    IF Given(a, "description") THEN [token EXCEPT !.description = a["description"]] ELSE token

\* main, update branch: appToken.get, then the new sessionPrivileges and description
B_get ==
    /\ tool = "B" /\ pc = "appToken.get"
    /\ \/ \E e \in ErrorCodes("appToken.get") :
            /\ Issue("appToken.get", <<args["update"]>>, FALSE, e)
            /\ Finish(get_failed(e))
            /\ UNCHANGED app_token
       \/ \E existing_app_token \in ExistingTokensB(args["update"]) :
            /\ Issue("appToken.get", <<args["update"]>>, TRUE, existing_app_token)
            /\ \E privileges \in
                    IF args["append"]
                    THEN {append_privileges(unique_uris) : unique_uris \in
                            Orderings(unique_uris_set(existing_app_token.sessionPrivileges.v,
                                                      list_actions_of(args)))}
                    ELSE {uri_privileges(list_actions_of(args))} :
                 app_token' = with_description(
                                 [existing_app_token EXCEPT !.sessionPrivileges = privileges],
                                 args)
            /\ Goto("appToken.update")
    /\ UNCHANGED <<tool, args, config, config_opened, ks, app_token_id,
                   app_token_value, unprivileged_ks, privileged_ks>>

\* main, update branch: appToken.update, outside any try; the result's id and token are kept
B_update ==
    /\ tool = "B" /\ pc = "appToken.update"
    /\ \/ \E value \in TokenValues :
            LET result == Stored(app_token, args["update"], value)
            IN  /\ Issue("appToken.update", <<args["update"], app_token>>, TRUE, result)
                /\ app_token_id' = result.id
                /\ app_token_value' = result.token
                /\ Goto("startWidgetSession")
       \/ \E e \in ErrorCodes("appToken.update") :
            /\ Issue("appToken.update", <<args["update"], app_token>>, FALSE, e)
            /\ Finish("RemoteAPIError")
            /\ UNCHANGED <<app_token_id, app_token_value>>
    /\ UNCHANGED <<tool, args, config, config_opened, ks, app_token,
                   unprivileged_ks, privileged_ks>>

\* main, create branch: the object submitted to appToken.add
added_app_token(a) ==
    with_description(
        [KalturaAppToken EXCEPT
            !.sessionType = "USER",
            !.sessionPrivileges = uri_privileges(list_actions_of(a)),
            !.hashType = "SHA256"],
        a)

\* main, create branch: appToken.add, outside any try; the result's id and token are kept
B_add ==
    /\ tool = "B" /\ pc = "appToken.add"
    /\ LET submitted == added_app_token(args)
       IN  \/ \E id \in NewTokenIds, value \in TokenValues :
                /\ Issue("appToken.add", <<submitted>>, TRUE, Stored(submitted, id, value))
                /\ app_token_id' = id
                /\ app_token_value' = value
                /\ Goto("startWidgetSession")
           \/ \E e \in ErrorCodes("appToken.add") :
                /\ Issue("appToken.add", <<submitted>>, FALSE, e)
                /\ Finish("RemoteAPIError")
                /\ UNCHANGED <<app_token_id, app_token_value>>
    /\ UNCHANGED <<tool, args, config, config_opened, ks, app_token,
                   unprivileged_ks, privileged_ks>>

\* start_app_token_session: sha256 over the unprivileged session followed by the token value
hash_string(unprivileged, value) == sha256_hexdigest(unprivileged \o value)

\* start_app_token_session, up to the hash.  Without a session it prints and returns None,
\* and main prints that None and returns.  With one, client.setKs, and the concatenation
\* with a token value of None raises TypeError.
B_startWidgetSession ==
    /\ tool = "B" /\ pc = "startWidgetSession"
    /\ \/ \E u \in WidgetSessions \cup NoSession :
            /\ Issue("session.startWidgetSession", <<widget_id(PARTNER_ID)>>, TRUE, u)
            /\ IF ~Truthy(u)
               THEN Finish("returned") /\ UNCHANGED <<ks, unprivileged_ks>>
               ELSE /\ setKs(u)
                    /\ unprivileged_ks' = u
                    /\ IF app_token_value = None
                       THEN Finish("TypeError")
                       ELSE Goto("appToken.startSession")
       \/ \E e \in ErrorCodes("session.startWidgetSession") :
            /\ Issue("session.startWidgetSession", <<widget_id(PARTNER_ID)>>, FALSE, e)
            /\ Finish("RemoteAPIError")
            /\ UNCHANGED <<ks, unprivileged_ks>>
    /\ UNCHANGED <<tool, args, config, config_opened, app_token, app_token_id,
                   app_token_value, privileged_ks>>

\* start_app_token_session from the appToken.startSession call on: whatever ks the
\* response carries is set on the client and returned; main prints it and returns
B_startSession ==
    /\ tool = "B" /\ pc = "appToken.startSession"
    /\ LET arguments == <<app_token_id, hash_string(unprivileged_ks, app_token_value)>>
       IN  \/ \E p \in PrivilegedSessions \cup NoSession :
                /\ Issue("appToken.startSession", arguments, TRUE, p)
                /\ setKs(p)
                /\ privileged_ks' = p
                /\ Finish("returned")
           \/ \E e \in ErrorCodes("appToken.startSession") :
                /\ Issue("appToken.startSession", arguments, FALSE, e)
                /\ Finish("RemoteAPIError")
                /\ UNCHANGED <<ks, privileged_ks>>
    /\ UNCHANGED <<tool, args, config, config_opened, app_token, app_token_id,
                   app_token_value, unprivileged_ks>>

NextB ==
    \/ B_main
    \/ B_load_configuration
    \/ B_session_start
    \/ B_list_app_tokens
    \/ B_get
    \/ B_update
    \/ B_add
    \/ B_startWidgetSession
    \/ B_startSession

Next == NextA \/ NextB

Spec == Init /\ [][Next]_vars

(***************************************************************************)
(* The claims.                                                             *)
(***************************************************************************)
\* the calls of the run so far that went to operation op
CallsTo(op) == {i \in 1..Len(calls) : calls[i].op = op}

\* the token object a call to appToken.add or appToken.update submitted
Submitted(c) == IF c.op = "appToken.add" THEN c.args[1] ELSE c.args[2]

\* an option the user put on the command line: a valued option that has a value, a
\* store_true option that is set
Supplied(a, option) == option \in DOMAIN a /\ (option \in FlagOptions => a[option])

\* the tokens of the supplied options, in the order of PRIVILEGE_HANDLERS, from handler i on
RECURSIVE supplied_tokens_from(_, _)
supplied_tokens_from(a, i) ==
    IF i > Len(PRIVILEGE_HANDLERS) THEN <<>>
    ELSE LET privilege == PRIVILEGE_HANDLERS[i]
         IN  (IF Supplied(a, privilege)
              THEN <<handle_privilege(privilege, a[privilege])>>
              ELSE <<>>) \o supplied_tokens_from(a, i + 1)

\* C1: Tool A, create path: the sessionPrivileges submitted to appToken.add is the
\* comma-join, in the order of PRIVILEGE_HANDLERS, of the tokens of exactly the options
\* the user supplied; an option that was not supplied contributes no token.
C1_PrivilegesOfSuppliedOptionsOnly ==
    tool = "A" =>
        \A i \in CallsTo("appToken.add") :
            Submitted(calls[i]).sessionPrivileges = join(",", supplied_tokens_from(args, 1))

\* the call returned a token that has an id and a value
ReturnedToken(c) ==
    /\ c.op \in {"appToken.add", "appToken.update"}
    /\ c.ok
    /\ Truthy(c.result.id)
    /\ Truthy(c.result.token)

\* C2: Tool A: whenever --start_session is requested and the create or the update call
\* returned a token, the handshake is run with the id and the value of that token, on
\* the update branch as on the create branch.
C2_HandshakeAfterCreateOrUpdate ==
    (tool = "A" /\ pc = "done" /\ args["start_session"]) =>
        \A i \in 1..Len(calls) :
            ReturnedToken(calls[i]) =>
                /\ \E j \in CallsTo("session.startWidgetSession") : j > i
                /\ \A k \in CallsTo("appToken.startSession") :
                        /\ k > i
                        /\ calls[k].args[1] = calls[i].result.id
                        /\ \E j \in CallsTo("session.startWidgetSession") :
                                calls[k].args[2] =
                                    sha256_hexdigest(calls[j].result \o calls[i].result.token)

\* a handshake call whose response carries no session string
AnsweredWithoutSession(c) ==
    /\ c.op \in {"session.startWidgetSession", "appToken.startSession"}
    /\ c.ok
    /\ c.result \in NoSession

\* C3: in both tools, when the widget-session response or the appToken.startSession
\* response carries no session string, the handshake ends in a raised failure: it does
\* not return, and the client's ambient session is never set to an empty or None value.
C3_NoSessionIsAnError ==
    \A i \in 1..Len(calls) :
        AnsweredWithoutSession(calls[i]) =>
            /\ outcome = "HandshakeError"
            /\ ks \notin NoSession

\* C4: in both tools, every appToken.startSession call comes after a startWidgetSession
\* call of the run that returned a non-empty session u; its first argument is the id of
\* the token this run's add or update call returned and its hash is H(u ++ v), v that
\* token's value; and another u or another v gives another hash.
C4_HashBindsSessionAndTokenValue ==
    \A i \in CallsTo("appToken.startSession") :
        \E j \in CallsTo("session.startWidgetSession"), t \in 1..Len(calls) :
            /\ j < i /\ t < j
            /\ calls[j].ok /\ Truthy(calls[j].result)
            /\ calls[t].op \in {"appToken.add", "appToken.update"} /\ calls[t].ok
            /\ calls[i].args[1] = calls[t].result.id
            /\ LET u == calls[j].result
                   v == calls[t].result.token
                   hash == calls[i].args[2]
               IN  /\ v # None
                   /\ hash = sha256_hexdigest(u \o v)
                   /\ \A u2 \in WidgetSessions \ {u} : sha256_hexdigest(u2 \o v) # hash
                   /\ \A v2 \in TokenValues \ {v, None} : sha256_hexdigest(u \o v2) # hash

\* C4's case: Tool B has issued appToken.startSession for an updated token
C4_Witness ==
    /\ tool = "B"
    /\ CallsTo("appToken.update") # {}
    /\ \E i \in CallsTo("appToken.startSession") : calls[i].ok

\* every call of the run, the admin session start aside, went to operation op, and there
\* is at most one of them; exactly one when the run returned
OnlyCallIs(op) ==
    /\ \A i \in 1..Len(calls) : calls[i].op \in {"session.start", op}
    /\ Cardinality(CallsTo(op)) <= 1
    /\ outcome = "returned" => Cardinality(CallsTo(op)) = 1

\* C5: the calls of a run belong to one branch.  Tool A with a delete id: the only
\* app-token call is one appToken.delete, whatever the other flags; Tool A without one
\* and with the list flag: it is appToken.list; Tool B with the list flag: it is
\* appToken.list.  A run on the list branch never adds, updates or deletes.
C5_OneBranchPerRun ==
    /\ (tool = "A" /\ Given(args, "delete")) => OnlyCallIs("appToken.delete")
    /\ (tool = "A" /\ ~Given(args, "delete") /\ args["list"]) => OnlyCallIs("appToken.list")
    /\ (tool = "B" /\ args["list"]) => OnlyCallIs("appToken.list")

\* C5's case: Tool A deleted a token although --list, --update and --start_session were given too
C5_Witness ==
    /\ tool = "A" /\ pc = "done"
    /\ Given(args, "delete") /\ args["list"] /\ Given(args, "update") /\ args["start_session"]
    /\ CallsTo("appToken.delete") # {}

\* C6 as stated: every invocation made while config.json is missing ends with a
\* configuration error, and no remote call has been made.
C6_EveryRunEndsInConfigurationError ==
    (config = "missing" /\ pc = "done") =>
        /\ outcome = "ConfigurationError"
        /\ calls = <<>>

\* C6, amended: while config.json is missing no run makes a remote call, and every run
\* ends with a configuration error except those that end before the configuration is
\* loaded: Tool A called without arguments (help, exit 1) and Tool B called without the
\* mandatory --actions (message, return).
C6_MissingConfigurationStopsTheRun ==
    config = "missing" =>
        /\ calls = <<>>
        /\ ks = None
        /\ pc \in {"main", "load_configuration", "done"}
        /\ pc = "done" =>
            \/ config_opened /\ outcome = "ConfigurationError"
            \/ ~config_opened /\ tool = "A" /\ NoArguments(args) /\ outcome = "help"
            \/ ~config_opened /\ tool = "B" /\ actions_missing(args) /\ outcome = "user_error"

\* C6's case: Tool A, given arguments, stopped at the missing config.json
C6_Witness ==
    /\ tool = "A" /\ config = "missing" /\ ~NoArguments(args)
    /\ pc = "done" /\ outcome = "ConfigurationError"

\* the remote operations C7 names
PolicyOps ==
    {"session.start", "appToken.get", "appToken.add", "appToken.update", "appToken.list",
     "appToken.delete"}

\* C7 as stated: in both tools a remote API error of any of these calls is caught where
\* the call is made, the run does not end with an unhandled failure, and the steps that
\* depend on the failed call are skipped.
C7_RemoteErrorsAreCaught ==
    \A i \in 1..Len(calls) :
        (calls[i].op \in PolicyOps /\ ~calls[i].ok) =>
            /\ outcome \notin Unhandled
            /\ i = Len(calls)

\* the call sites whose except clause swallows the KalturaException
CaughtAtCallSite(t, c) ==
    \/ t = "A" /\ c.op \in PolicyOps \ {"session.start"}
    \/ t = "B" /\ c.op = "appToken.get" /\ c.result = "APP_TOKEN_ID_NOT_FOUND"

\* C7, amended: in both tools no remote call follows one that failed with a remote API
\* error.  The error is caught where the call is made, and the run ends normally, for
\* Tool A's appToken.get, add, update, list and delete and for Tool B's appToken.get
\* failing with APP_TOKEN_ID_NOT_FOUND; the failure of session.start in Tool A and every
\* other failure in Tool B end the run with an unhandled failure.
C7_FailedCallEndsTheRun ==
    \A i \in 1..Len(calls) :
        (calls[i].op \in PolicyOps /\ ~calls[i].ok) =>
            /\ i = Len(calls)
            /\ pc = "done"
            /\ outcome = (IF CaughtAtCallSite(tool, calls[i]) THEN "returned" ELSE "RemoteAPIError")

\* C7's case: Tool A's create failed with --start_session given, and the run returned
C7_Witness ==
    /\ tool = "A" /\ args["start_session"] /\ pc = "done" /\ outcome = "returned"
    /\ \E i \in CallsTo("appToken.add") : ~calls[i].ok

\* C8: Tool B, create path and update path without --append: the submitted
\* sessionPrivileges is one string, "urirestrict:" followed by the '|'-join, in input
\* order, of the paths built from --actions.
C8_UriRestrictString ==
    tool = "B" =>
        \A i \in CallsTo("appToken.add") \cup
                 (IF args["append"] THEN {} ELSE CallsTo("appToken.update")) :
            Submitted(calls[i]).sessionPrivileges =
                PyStr(URIRESTRICT \o
                      joinChars(<<"|">>, build_uri_privilege(list_actions_of(args))))

\* s begins with "urirestrict:"
HasPrefix(s) == Len(s) >= Len(URIRESTRICT) /\ SubSeq(s, 1, Len(URIRESTRICT)) = URIRESTRICT

\* the '|'-separated elements that follow the leading "urirestrict:" of s
UriList(s) == split(SubSeq(s, Len(URIRESTRICT) + 1, Len(s)), "|")

\* C9: Tool B, --update ID --append: the submitted sessionPrivileges is "urirestrict:",
\* once and at the start, followed by a '|'-separated list whose elements are the set
\* union of the existing URIs and the newly built ones, each exactly once; appending the
\* same actions to the result again leaves the set of URIs unchanged.
C9_AppendIsSetUnion ==
    (tool = "B" /\ args["append"]) =>
        \A i \in CallsTo("appToken.update") :
            LET existing == calls[i - 1].result.sessionPrivileges.v
                privileges == Submitted(calls[i]).sessionPrivileges
                new_uris == build_uri_privilege(list_actions_of(args))
            IN  /\ privileges.type = "str"
                /\ HasPrefix(privileges.v)
                /\ \A k \in 1..Len(UriList(privileges.v)) : ~HasPrefix(UriList(privileges.v)[k])
                /\ Range(UriList(privileges.v)) = Range(UriList(existing)) \cup Range(new_uris)
                /\ Cardinality(Range(UriList(privileges.v))) = Len(UriList(privileges.v))
                /\ \A again \in Orderings(unique_uris_set(privileges.v, list_actions_of(args))) :
                        Range(UriList(append_privileges(again).v)) = Range(UriList(privileges.v))

\* C10: Tool B: an invocation that would add or update a token (the list flag absent, or
\* an update id given) and has no --actions value reports the user error and ends
\* without a remote call and without reading the configuration.
C10_ActionsAreMandatory ==
    (/\ tool = "B"
     /\ ~args["list"] \/ Given(args, "update")
     /\ ~("actions" \in DOMAIN args /\ args["actions"] # <<>>)) =>
        /\ calls = <<>>
        /\ ~config_opened
        /\ ks = None
        /\ pc \in {"main", "done"}
        /\ pc = "done" => outcome = "user_error"

\* C10's case: Tool B, given --list and --update but no --actions, reported the error
C10_Witness ==
    /\ tool = "B" /\ args["list"] /\ Given(args, "update") /\ "actions" \notin DOMAIN args
    /\ pc = "done" /\ outcome = "user_error"

\* C11: in both tools, once start_app_token_session has returned a privileged session the
\* client's ambient session is that session, the one appToken.startSession answered
\* with; and appToken.startSession itself is sent under the unprivileged session the
\* widget call of the run returned.
C11_AmbientSessionFollowsTheHandshake ==
    /\ \A i \in CallsTo("appToken.startSession") :
            /\ i > 1
            /\ calls[i - 1].op = "session.startWidgetSession"
            /\ calls[i - 1].ok
            /\ Truthy(calls[i].ks)
            /\ calls[i].ks = calls[i - 1].result
    /\ Truthy(privileged_ks) =>
            /\ ks = privileged_ks
            /\ calls[Len(calls)].op = "appToken.startSession"
            /\ calls[Len(calls)].ok
            /\ ks = calls[Len(calls)].result

\* C11's case: Tool B's handshake returned a privileged session
C11_Witness ==
    /\ tool = "B" /\ pc = "done" /\ Truthy(privileged_ks)
    /\ CallsTo("appToken.startSession") # {}

\* the remote operations the tools use
RemoteOps ==
    {"session.start", "session.startWidgetSession", "appToken.get", "appToken.add",
     "appToken.update", "appToken.delete", "appToken.list", "appToken.startSession"}

\* no remote operation has been invoked twice, whatever it answered
EachOperationAtMostOnce ==
    /\ \A i \in 1..Len(calls) : calls[i].op \in RemoteOps
    /\ \A op \in RemoteOps : Cardinality(CallsTo(op)) <= 1

\* how far into the script a statement is: every path through either script visits its
\* statements in this order
Progress(statement) ==
    CASE statement = "main" -> 0
      [] statement = "load_configuration" -> 1
      [] statement \in {"start_admin_session", "session.start"} -> 2
      [] statement \in {"delete_app_token", "list_app_tokens", "update_app_token",
                        "create_app_token", "appToken.get", "appToken.add"} -> 3
      [] statement = "appToken.update" -> 4
      [] statement = "startWidgetSession" -> 5
      [] statement = "appToken.startSession" -> 6
      [] statement = "done" -> 7

\* C12: no retries: in every run of either tool each remote operation is invoked at most
\* once, whether it succeeds or fails, and the run reaches a terminal state after a
\* bounded number of remote calls: a run that has not ended always has a next step, and
\* every step moves strictly forward through the script, so no statement is visited twice.
C12_NoRetries ==
    /\ [](EachOperationAtMostOnce /\ (pc = "done" \/ ENABLED Next))
    /\ [][Progress(pc') > Progress(pc)]_vars

\* C12's case: a run ended after a call failed, and the failed call was not repeated
C12_Witness ==
    /\ pc = "done"
    /\ \E i \in 1..Len(calls) : ~calls[i].ok /\ Cardinality(CallsTo(calls[i].op)) = 1

\* the token appToken.get answered in this run (there is at most one such call)
Fetched == calls[CHOOSE j \in CallsTo("appToken.get") : TRUE].result

\* C13: Tool A, update path: when no privilege option is supplied the token submitted to
\* appToken.update carries the sessionPrivileges of the token appToken.get fetched, when
\* --description is not supplied it carries the fetched description, and the fields the
\* user cannot supply (id, token, sessionType, hashType) are the fetched ones.
C13_UpdateOverlaysSuppliedFieldsOnly ==
    tool = "A" =>
        \A i \in CallsTo("appToken.update") :
            LET submitted == Submitted(calls[i])
            IN  /\ (\A k \in 1..Len(PRIVILEGE_HANDLERS) : ~Supplied(args, PRIVILEGE_HANDLERS[k]))
                      => submitted.sessionPrivileges = Fetched.sessionPrivileges
                /\ "description" \notin DOMAIN args
                      => submitted.description = Fetched.description
                /\ \A field \in {"id", "token", "sessionType", "hashType"} :
                      submitted[field] = Fetched[field]

====
